---- MODULE Spec2Model ----
(***************************************************************************)
(* RDSApp (src/rds_app.py): a data-access layer over three MySQL tables    *)
(* (users, activity, preferences).  Every public method opens its own      *)
(* connection through get_connection, executes parameterized statements,   *)
(* commits or rolls back, and closes the connection.                       *)
(*                                                                         *)
(* The storage engine is modelled as far as the statements use it: rows,   *)
(* primary/unique keys, foreign keys with ON DELETE CASCADE, column        *)
(* widths, AUTO_INCREMENT, row locks held to the end of a transaction and  *)
(* the affected-rows count the driver reports.  created_at is not          *)
(* modelled: no statement of the program reads it back into a decision.    *)
(***************************************************************************)
EXTENDS Integers, Sequences, FiniteSets, TLC

\* The fields of the records of this module, in the order every record lists them.
Fields ==
    [a |-> "statement: its bound parameters",
     activity |-> "tables: the activity rows",
     activity_id |-> "activity column",
     call |-> "client: the method it runs and its arguments",
     committed |-> "client: conn.commit() has run",
     conns |-> "client: the connections it opened",
     email |-> "users column",
     emails |-> "arguments: email",
     end_time |-> "get_user_activity argument",
     err |-> "the exception raised, if any",
     failedAt |-> "client: the statement that raised",
     filename |-> "load_seed_data argument",
     files |-> "arguments: filename",
     first |-> "arguments: first_name",
     first_name |-> "users column",
     flags |-> "arguments: notifications",
     i |-> "client: the statement to execute next",
     ids |-> "arguments: activity_id",
     increment |-> "update_login_count argument",
     k |-> "statement: its kind",
     kind |-> "result: return or raise",
     last |-> "arguments: last_name",
     last_name |-> "users column",
     login_count |-> "activity column",
     login_time |-> "activity column",
     msg |-> "exception: its message",
     newThemes |-> "arguments: theme of a new row",
     nid |-> "outcome: AUTO_INCREMENT counter",
     notifications |-> "preferences column",
     op |-> "call: the method",
     open |-> "connection: not closed yet",
     out |-> "client: what the caller gets",
     pc |-> "client: position in the method",
     pre |-> "client: committed rows as of the call",
     preferences |-> "tables: the preferences rows",
     rolledBack |-> "connection: rollback() has run on it",
     rowcount |-> "cursor.rowcount",
     rows |-> "the rows the cursor fetched",
     s |-> "outcome: keys locked shared",
     snapshot |-> "arguments: whether pre is recorded",
     start_time |-> "get_user_activity argument",
     t |-> "result: type of the value",
     tabs |-> "outcome: the rows after the statement",
     theme |-> "preferences column",
     themes |-> "arguments: theme",
     times |-> "arguments: start_time, end_time",
     type |-> "exception: its class",
     user_id |-> "key column of the three tables",
     users |-> "tables: the users rows",
     v |-> "result: the value",
     x |-> "outcome: keys locked exclusively"]

VARIABLES
    db,        \* committed rows: [users, activity, preferences], each a set of rows
    nextId,    \* activity.activity_id AUTO_INCREMENT counter
    strict,    \* the server's sql_mode: TRUE = strict (over-long value is an error)
    xl,        \* xl[p]: keys the open transaction of p holds exclusively
    sl,        \* sl[p]: keys the open transaction of p holds shared (parent rows)
    wr,        \* wr[p]: the uncommitted rows of p's transaction, on the keys in xl[p]
    st         \* st[p]: the client p's position in the method it is running

vars == <<db, nextId, strict, xl, sl, wr, st>>

----------------------------------------------------------------------------
(* Bounds of the model *)

MaxActivityId == 2      \* AUTO_INCREMENT values handed out
MaxLoginCount == 2      \* largest login_count a row is driven to
NumCallers == 3         \* concurrent update_login_count callers (SpecInc)

(* Column widths of the schema *)

UserIdWidth == 50
EmailWidth == 100
FirstNameWidth == 50
LastNameWidth == 50
ThemeWidth == 20

----------------------------------------------------------------------------
(* Input values *)

LongName == "Maximilian-Alexander-Bartholomew-Constantine-Ferdinand"
LongTheme == "solarized-dark-hi-contrast"

UserIds == {"u1", "u2"}
Emails == {"a@x.com", "b@x.com"}
FirstNames == {"Ann", LongName}
LastNames == {"Lee"}
Themes == {"dark", "light", LongTheme}
Times == {0, 1, 2}

Seq1(x) == <<x>>
NoneV == <<>>           \* Python None / an omitted optional argument
IsNone(v) == v = <<>>
Opt(S) == {NoneV} \cup {Seq1(x) : x \in S}

EmptyTables == [activity |-> {}, preferences |-> {}, users |-> {}]

----------------------------------------------------------------------------
(* Seed documents: what json.load returns for a file name, <<>> for a      *)
(* file that does not exist.                                               *)

SeedUser(u, e) == [email |-> e, first_name |-> "Ann", last_name |-> "Lee", user_id |-> u]
SeedActivity(u, t) == [login_count |-> 1, login_time |-> t, user_id |-> u]
SeedPref(u, th) == [notifications |-> TRUE, theme |-> th, user_id |-> u]

SeedFiles == {"missing.json", "orphan.json", "seed_data.json"}

ReadSeed(filename) ==
    CASE filename = "seed_data.json" ->
            Seq1([activity |-> <<SeedActivity("u1", 1)>>,
                  preferences |-> <<SeedPref("u1", "light")>>,
                  users |-> <<SeedUser("u1", "a@x.com")>>])
      [] filename = "orphan.json" ->
            Seq1([activity |-> <<SeedActivity("u1", 2)>>,
                  preferences |-> <<SeedPref("u2", "dark")>>,
                  users |-> <<SeedUser("u2", "b@x.com")>>])
      [] OTHER -> <<>>

----------------------------------------------------------------------------
(* The storage engine *)

NoError == [msg |-> "", type |-> ""]
DuplicateEntry == [msg |-> "Duplicate entry", type |-> "IntegrityError"]
ForeignKeyFails == [msg |-> "a foreign key constraint fails", type |-> "IntegrityError"]
DataTooLong == [msg |-> "Data too long for column", type |-> "DataError"]
FileNotFound == [msg |-> "No such file or directory", type |-> "FileNotFoundError"]

TooLong(v, width) == Len(v) > width
Fit(v, width) == IF Len(v) > width THEN SubSeq(v, 1, width) ELSE v
BoolToTinyint(b) == IF b THEN 1 ELSE 0

UserKey(u) == <<"users", u>>
EmailKey(e) == <<"email", e>>
PrefKey(u) == <<"preferences", u>>
ActivityKey(n) == <<"activity", n>>

\* The rows of `tabs` that sit on the keys in `keys`, and those that do not.
OnKeys(tabs, keys) ==
    [activity |-> {r \in tabs.activity : ActivityKey(r.activity_id) \in keys},
     preferences |-> {r \in tabs.preferences : PrefKey(r.user_id) \in keys},
     users |-> {r \in tabs.users : UserKey(r.user_id) \in keys}]

OffKeys(tabs, keys) ==
    [activity |-> {r \in tabs.activity : ActivityKey(r.activity_id) \notin keys},
     preferences |-> {r \in tabs.preferences : PrefKey(r.user_id) \notin keys},
     users |-> {r \in tabs.users : UserKey(r.user_id) \notin keys}]

Merge(a, b) ==
    [activity |-> a.activity \cup b.activity,
     preferences |-> a.preferences \cup b.preferences,
     users |-> a.users \cup b.users]

\* What the transaction of p reads and writes: the committed rows, with the rows
\* it has itself written in place of those on the keys it holds.
View(p) == Merge(OffKeys(db, xl[p]), wr[p])

\* A statement's outcome: the error it raises (NoError: none), the rows after it,
\* the keys it locks, the driver's rowcount, the rows it fetches and the
\* AUTO_INCREMENT counter after it.
Outcome(err, tabs, x, s, rowcount, rows, nid) ==
    [err |-> err, nid |-> nid, rowcount |-> rowcount, rows |-> rows, s |-> s,
     tabs |-> tabs, x |-> x]

Failed(err, tabs, x, s, nid) == Outcome(err, tabs, x, s, 0, <<>>, nid)

\* users: user_id is the PRIMARY KEY and email is UNIQUE.
\* A users table whose only key is user_id.
UsersKeyTakenIdOnly(V, row) ==
    \E r \in V.users : r.user_id = row.user_id

\* users: user_id PRIMARY KEY, email UNIQUE.
UsersKeyTaken(V, row) ==
    \E r \in V.users : r.user_id = row.user_id \/ r.email = row.email

\* activity, preferences: FOREIGN KEY (user_id) REFERENCES users(user_id).
NoForeignKey(V, u) == TRUE

ForeignKey(V, u) == \E r \in V.users : r.user_id = u

\* INSERT INTO users (user_id, email, first_name, last_name) VALUES (...)
InsertUser(V, nid, a) ==
    LET long == \/ TooLong(a.user_id, UserIdWidth)
                \/ TooLong(a.email, EmailWidth)
                \/ TooLong(a.first_name, FirstNameWidth)
                \/ TooLong(a.last_name, LastNameWidth)
        row == [email |-> Fit(a.email, EmailWidth),
                first_name |-> Fit(a.first_name, FirstNameWidth),
                last_name |-> Fit(a.last_name, LastNameWidth),
                user_id |-> Fit(a.user_id, UserIdWidth)]
        x == {UserKey(row.user_id), EmailKey(row.email)}
    IN  IF strict /\ long THEN Failed(DataTooLong, V, {}, {}, nid)
        ELSE IF UsersKeyTaken(V, row)
        THEN Failed(DuplicateEntry, V, x, {}, nid)
        ELSE Outcome(NoError, [V EXCEPT !.users = @ \cup {row}], x, {}, 1, <<>>, nid)

\* INSERT INTO activity (user_id, login_time, login_count) VALUES (...)
\* The AUTO_INCREMENT value is taken when the row is built and is not given back.
InsertActivity(V, nid, a) ==
    LET row == [activity_id |-> nid, login_count |-> a.login_count,
                login_time |-> a.login_time, user_id |-> Fit(a.user_id, UserIdWidth)]
    IN  IF strict /\ TooLong(a.user_id, UserIdWidth)
        THEN Failed(DataTooLong, V, {}, {}, nid)
        ELSE IF ~ForeignKey(V, row.user_id)
        THEN Failed(ForeignKeyFails, V, {}, {UserKey(row.user_id)}, nid + 1)
        ELSE Outcome(NoError, [V EXCEPT !.activity = @ \cup {row}],
                     {ActivityKey(nid)}, {UserKey(row.user_id)}, 1, <<>>, nid + 1)

\* INSERT INTO preferences (user_id, theme, notifications) VALUES (...)
InsertPreferences(V, nid, a) ==
    LET row == [notifications |-> BoolToTinyint(a.notifications),
                theme |-> Fit(a.theme, ThemeWidth),
                user_id |-> Fit(a.user_id, UserIdWidth)]
        x == {PrefKey(row.user_id)}
        s == {UserKey(row.user_id)}
    IN  IF strict /\ (TooLong(a.user_id, UserIdWidth) \/ TooLong(a.theme, ThemeWidth))
        THEN Failed(DataTooLong, V, {}, {}, nid)
        ELSE IF ~ForeignKey(V, row.user_id)
        THEN Failed(ForeignKeyFails, V, x, s, nid)
        ELSE IF \E r \in V.preferences : r.user_id = row.user_id
        THEN Failed(DuplicateEntry, V, x, s, nid)
        ELSE Outcome(NoError, [V EXCEPT !.preferences = @ \cup {row}], x, s, 1, <<>>, nid)

OnDeleteNoAction(V, u) == V

\* What ON DELETE CASCADE does to the child tables when user u is deleted.
OnDeleteCascade(V, u) ==
    [V EXCEPT !.activity = {r \in @ : r.user_id # u},
              !.preferences = {r \in @ : r.user_id # u}]

\* DELETE FROM users WHERE user_id = %s
\* rowcount counts the users rows only, not the rows the cascade removed.
DeleteUser(V, nid, a) ==
    LET hit == {r \in V.users : r.user_id = a.user_id}
        x == {UserKey(a.user_id), PrefKey(a.user_id)}
             \cup {EmailKey(r.email) : r \in hit}
             \cup {ActivityKey(r.activity_id) : r \in {q \in V.activity : q.user_id = a.user_id}}
    IN  IF hit = {} THEN Outcome(NoError, V, {UserKey(a.user_id)}, {}, 0, <<>>, nid)
        ELSE Outcome(NoError, OnDeleteCascade([V EXCEPT !.users = @ \ hit], a.user_id),
                     x, {}, Cardinality(hit), <<>>, nid)

\* UPDATE activity SET login_count = login_count + %s
\* WHERE user_id = %s AND activity_id = %s
\* The driver reports the rows the statement changed, not the rows it matched.
UpdateLoginCount(V, nid, a) ==
    LET hit == {r \in V.activity : r.user_id = a.user_id /\ r.activity_id = a.activity_id}
        new(r) == [r EXCEPT !.login_count = @ + a.increment]
    IN  Outcome(NoError, [V EXCEPT !.activity = (@ \ hit) \cup {new(r) : r \in hit}],
                {ActivityKey(a.activity_id)}, {},
                Cardinality({r \in hit : new(r) # r}), <<>>, nid)

\* UPDATE activity SET login_count = %s WHERE ...: the write half of an
\* application-side read-modify-write, the value computed from the row fetched before.
SetLoginCount(V, nid, a, fetched) ==
    LET hit == {r \in V.activity : r.user_id = a.user_id /\ r.activity_id = a.activity_id}
        new(r) == [r EXCEPT !.login_count =
                      IF fetched = <<>> THEN @ ELSE fetched[1].login_count + a.increment]
    IN  Outcome(NoError, [V EXCEPT !.activity = (@ \ hit) \cup {new(r) : r \in hit}],
                {ActivityKey(a.activity_id)}, {},
                Cardinality({r \in hit : new(r) # r}), <<>>, nid)

\* UPDATE preferences SET <the supplied columns> WHERE user_id = %s
\* The driver reports the rows the statement changed, not the rows it matched.
UpdatePreferences(V, nid, a) ==
    LET hit == {r \in V.preferences : r.user_id = a.user_id}
        new(r) == [r EXCEPT
                     !.theme = IF IsNone(a.theme) THEN @ ELSE Fit(a.theme[1], ThemeWidth),
                     !.notifications = IF IsNone(a.notifications) THEN @
                                       ELSE BoolToTinyint(a.notifications[1])]
        long == ~IsNone(a.theme) /\ TooLong(a.theme[1], ThemeWidth)
    IN  IF strict /\ long /\ hit # {}
        THEN Failed(DataTooLong, V, {PrefKey(a.user_id)}, {}, nid)
        ELSE Outcome(NoError,
                     [V EXCEPT !.preferences = (@ \ hit) \cup {new(r) : r \in hit}],
                     {PrefKey(a.user_id)}, {},
                     Cardinality({r \in hit : new(r) # r}), <<>>, nid)

\* A set of rows as a list, ascending by login_time (then by activity_id, the
\* order of the index (user_id, login_time) the statement reads).
RECURSIVE OrderByLoginTime(_)
OrderByLoginTime(S) ==
    IF S = {} THEN <<>>
    ELSE LET first == CHOOSE r \in S : \A q \in S :
                          \/ r.login_time < q.login_time
                          \/ r.login_time = q.login_time /\ r.activity_id <= q.activity_id
         IN  <<first>> \o OrderByLoginTime(S \ {first})

RECURSIVE SetToSeq(_)
SetToSeq(S) ==
    IF S = {} THEN <<>>
    ELSE LET first == CHOOSE r \in S : TRUE IN <<first>> \o SetToSeq(S \ {first})

Fetched(V, nid, rows) == Outcome(NoError, V, {}, {}, Len(rows), rows, nid)

\* SELECT user_id, email, first_name, last_name, created_at FROM users WHERE user_id = %s
SelectUser(V, nid, a) ==
    Fetched(V, nid, SetToSeq({r \in V.users : r.user_id = a.user_id}))

\* SELECT u.user_id, u.email, u.first_name, u.last_name, p.theme, p.notifications
\* FROM users u LEFT JOIN preferences p ON u.user_id = p.user_id WHERE u.user_id = %s
\* theme and notifications are NULL (<<>>) for a user without a preferences row.
SelectUserWithPreferences(V, nid, a) ==
    LET joined(u) ==
            LET ps == {q \in V.preferences : q.user_id = u.user_id}
                base(th, n) == [email |-> u.email, first_name |-> u.first_name,
                                last_name |-> u.last_name, notifications |-> n,
                                theme |-> th, user_id |-> u.user_id]
            IN  IF ps = {} THEN {base(NoneV, NoneV)}
                ELSE {base(Seq1(q.theme), Seq1(q.notifications)) : q \in ps}
    IN  Fetched(V, nid, SetToSeq(UNION {joined(u) : u \in {r \in V.users : r.user_id = a.user_id}}))

\* Python truth of an optional argument: None is false, and so is 0.
Truthy(v) == ~IsNone(v) /\ v[1] # 0

\* SELECT activity_id, user_id, login_time, login_count FROM activity WHERE user_id = %s
\* [AND login_time >= %s] [AND login_time <= %s] ORDER BY login_time ASC
SelectActivity(V, nid, a) ==
    Fetched(V, nid, OrderByLoginTime({r \in V.activity :
        /\ r.user_id = a.user_id
        /\ (Truthy(a.start_time) => r.login_time >= a.start_time[1])
        /\ (Truthy(a.end_time) => r.login_time <= a.end_time[1])}))

\* SELECT login_count ...: the read half of an application-side read-modify-write.
SelectLoginCount(V, nid, a) ==
    Fetched(V, nid, SetToSeq({r \in V.activity :
        r.user_id = a.user_id /\ r.activity_id = a.activity_id}))

----------------------------------------------------------------------------
(* RDSApp: the statements of each method *)

Stmt(k, a) == [a |-> a, k |-> k]

Run(V, nid, stmt, fetched) ==
    CASE stmt.k = "insert_user" -> InsertUser(V, nid, stmt.a)
      [] stmt.k = "insert_activity" -> InsertActivity(V, nid, stmt.a)
      [] stmt.k = "insert_preferences" -> InsertPreferences(V, nid, stmt.a)
      [] stmt.k = "delete_user" -> DeleteUser(V, nid, stmt.a)
      [] stmt.k = "update_login_count" -> UpdateLoginCount(V, nid, stmt.a)
      [] stmt.k = "update_preferences" -> UpdatePreferences(V, nid, stmt.a)
      [] stmt.k = "select_user" -> SelectUser(V, nid, stmt.a)
      [] stmt.k = "select_user_with_preferences" -> SelectUserWithPreferences(V, nid, stmt.a)
      [] stmt.k = "select_activity" -> SelectActivity(V, nid, stmt.a)
      [] stmt.k = "select_login_count" -> SelectLoginCount(V, nid, stmt.a)
      [] stmt.k = "set_login_count" -> SetLoginCount(V, nid, stmt.a, fetched)

AutocommitOn == TRUE

\* connection_params['autocommit']
Autocommit == FALSE

RECURSIVE Each(_, _)
Each(k, rows) == IF rows = <<>> THEN <<>> ELSE <<Stmt(k, Head(rows))>> \o Each(k, Tail(rows))

\* load_seed_data: users, then activity, then preferences, in one transaction.
LoadSeedDataStatements(c) ==
    LET data == ReadSeed(c.filename)[1]
    IN  Each("insert_user", data.users) \o Each("insert_activity", data.activity)
        \o Each("insert_preferences", data.preferences)

\* An application-side read-modify-write of login_count.
ReadModifyWriteStatements(c) ==
    <<Stmt("select_login_count", c), Stmt("set_login_count", c)>>

\* update_login_count: one UPDATE whose SET expression the engine evaluates.
UpdateLoginCountStatements(c) == <<Stmt("update_login_count", c)>>

\* create_user_with_preferences: the users row, then the preferences row.
CreateUserWithPreferencesStatements(c) ==
    <<Stmt("insert_user", c), Stmt("insert_preferences", c)>>

\* create_user binding its parameters with first_name and last_name exchanged.
CreateUserSwapped(c) ==
    <<Stmt("insert_user", [email |-> c.email, first_name |-> c.last_name,
                           last_name |-> c.first_name, user_id |-> c.user_id])>>

\* create_user: VALUES (%s, %s, %s, %s) bound to (user_id, email, first_name, last_name).
CreateUserStatements(c) ==
    <<Stmt("insert_user", [email |-> c.email, first_name |-> c.first_name,
                           last_name |-> c.last_name, user_id |-> c.user_id])>>

Statements(c) ==
    CASE c.op = "load_seed_data" -> LoadSeedDataStatements(c)
      [] c.op = "create_user" -> CreateUserStatements(c)
      [] c.op = "get_user" -> <<Stmt("select_user", c)>>
      [] c.op = "get_user_with_preferences" -> <<Stmt("select_user_with_preferences", c)>>
      [] c.op = "get_user_activity" -> <<Stmt("select_activity", c)>>
      [] c.op = "update_login_count" -> UpdateLoginCountStatements(c)
      [] c.op = "update_preferences" -> <<Stmt("update_preferences", c)>>
      [] c.op = "delete_user" -> <<Stmt("delete_user", c)>>
      [] c.op = "create_user_with_preferences" -> CreateUserWithPreferencesStatements(c)

\* The methods that call conn.commit() after their statements.
Commits(c) ==
    c.op \in {"load_seed_data", "create_user", "update_login_count", "update_preferences",
              "delete_user", "create_user_with_preferences"}

----------------------------------------------------------------------------
(* What a call hands back to its caller *)

Returned(t, v) == [err |-> NoError, kind |-> "return", t |-> t, v |-> v]
Raised(e) == [err |-> e, kind |-> "raise", t |-> "none", v |-> <<>>]
Pending == [err |-> NoError, kind |-> "pending", t |-> "none", v |-> <<>>]
ReturnedNone == Returned("none", <<>>)

\* cursor.fetchone(): the first row, or None.
FetchOne(rows) == IF rows = <<>> THEN ReturnedNone ELSE Returned("row", <<rows[1]>>)

\* The value of the method's return statement, from the cursor's state.
ReturnValue(c, rowcount, rows) ==
    CASE c.op = "load_seed_data" -> ReturnedNone
      [] c.op = "create_user" -> Returned("int", <<0>>)
      [] c.op = "get_user" -> FetchOne(rows)
      [] c.op = "get_user_with_preferences" -> FetchOne(rows)
      [] c.op = "get_user_activity" -> Returned("rows", rows)
      [] c.op = "update_login_count" -> Returned("int", <<IF rowcount > 0 THEN rowcount ELSE 0>>)
      [] c.op = "update_preferences" -> ReturnedNone
      [] c.op = "delete_user" -> Returned("bool", <<rowcount > 0>>)
      [] c.op = "create_user_with_preferences" -> Returned("bool", <<TRUE>>)

----------------------------------------------------------------------------
(* Clients.  Each runs one method at a time; st[p].pc is where it stands:   *)
(*   idle -> connect -> execute* -> commit -> close -> done -> idle         *)
(* with handler/rollback on the way to close when a statement raises, and   *)
(* nested_connect -> nested_execute -> nested_close before close when       *)
(* update_preferences returns self.get_user_with_preferences(user_id).      *)

Procs == 1..NumCallers

NewConnection == [open |-> TRUE, rolledBack |-> FALSE]

Idle ==
    [call |-> [op |-> "none"], committed |-> FALSE, conns |-> <<>>, err |-> NoError,
     failedAt |-> 0, i |-> 0, out |-> Pending, pc |-> "idle",
     pre |-> EmptyTables, rowcount |-> 0, rows |-> <<>>]

NoTables == [p \in Procs |-> EmptyTables]
NoKeys == [p \in Procs |-> {}]

\* Row locks: an exclusive lock excludes every other holder, a shared one
\* every exclusive holder.
CanLock(p, x, s) ==
    \A q \in Procs \ {p} :
        /\ xl[q] \cap (x \cup s) = {}
        /\ sl[q] \cap x = {}

\* The transaction of p ends: by COMMIT its rows become the committed rows.
EndTransaction(p, commit) ==
    /\ db' = IF commit THEN View(p) ELSE db
    /\ xl' = [xl EXCEPT ![p] = {}]
    /\ sl' = [sl EXCEPT ![p] = {}]
    /\ wr' = [wr EXCEPT ![p] = EmptyTables]

ExceptSkipsRollback == "close"

\* Where `except Exception` of get_connection takes an error raised in the body.
ExceptTarget == "rollback"

\* `before` is what the client remembers of the committed rows as of the call.
Begin(p, c, before) ==
    /\ st[p].pc = "idle"
    /\ st' = [st EXCEPT ![p] = [Idle EXCEPT !.pc = "connect", !.call = c, !.pre = before]]
    /\ UNCHANGED <<db, nextId, strict, xl, sl, wr>>

\* A call that ends before any connection is opened.
Finish(p, c, out, before) ==
    /\ st[p].pc = "idle"
    /\ st' = [st EXCEPT ![p] = [Idle EXCEPT !.pc = "done", !.call = c, !.pre = before,
                                            !.out = out]]
    /\ UNCHANGED <<db, nextId, strict, xl, sl, wr>>

InFlight(op) == {q \in Procs : st[q].call.op = op /\ st[q].pc \notin {"idle", "done"}}

\* The arguments the clients call with.
Wide ==
    [emails |-> Emails, files |-> SeedFiles, first |-> FirstNames, flags |-> Opt({FALSE}),
     ids |-> 1..MaxActivityId, last |-> LastNames, newThemes |-> {"dark", LongTheme},
     snapshot |-> TRUE, themes |-> Opt({"dark"}), times |-> Opt(Times), users |-> UserIds]

Narrow ==
    [emails |-> {"a@x.com"}, files |-> {"orphan.json", "seed_data.json"}, first |-> {"Ann"},
     flags |-> {NoneV}, ids |-> {1}, last |-> {"Lee"},
     newThemes |-> {LongTheme}, snapshot |-> FALSE, themes |-> Opt({"dark"}),
     times |-> {NoneV}, users |-> {"u1"}]

\* Clients that take a snapshot remember the committed rows as of the call.
Before(D) == IF D.snapshot THEN db ELSE EmptyTables

CallLoadSeedData(p, D) ==
    \E f \in D.files :
        LET c == [filename |-> f, op |-> "load_seed_data"]
        IN  IF ReadSeed(f) = <<>> THEN Finish(p, c, Raised(FileNotFound), Before(D))
            ELSE /\ nextId + Cardinality(InFlight("load_seed_data"))
                        + Len(ReadSeed(f)[1].activity) <= MaxActivityId + 1
                 /\ Begin(p, c, Before(D))

CallCreateUser(p, D) ==
    \E u \in D.users, e \in D.emails, f \in D.first, l \in D.last :
        Begin(p, [email |-> e, first_name |-> f, last_name |-> l,
                  op |-> "create_user", user_id |-> u], Before(D))

CallGetUser(p, D) ==
    \E u \in D.users : Begin(p, [op |-> "get_user", user_id |-> u], Before(D))

CallGetUserWithPreferences(p, D) ==
    \E u \in D.users : Begin(p, [op |-> "get_user_with_preferences", user_id |-> u], Before(D))

CallGetUserActivity(p, D) ==
    \E u \in D.users, s \in D.times, e \in D.times :
        Begin(p, [end_time |-> e, op |-> "get_user_activity",
                  start_time |-> s, user_id |-> u], Before(D))

CallUpdateLoginCount(p, D) ==
    \E u \in D.users, n \in D.ids :
        /\ \A r \in db.activity :
              r.login_count + 1 + Cardinality(InFlight("update_login_count")) <= MaxLoginCount
        /\ Begin(p, [activity_id |-> n, increment |-> 1, op |-> "update_login_count",
                     user_id |-> u], Before(D))

CallUpdatePreferences(p, D) ==
    \E u \in D.users, th \in D.themes, n \in D.flags :
        LET c == [notifications |-> n, op |-> "update_preferences", theme |-> th,
                  user_id |-> u]
        IN  IF IsNone(th) /\ IsNone(n) THEN Finish(p, c, ReturnedNone, Before(D))
            ELSE Begin(p, c, Before(D))

CallDeleteUser(p, D) ==
    \E u \in D.users : Begin(p, [op |-> "delete_user", user_id |-> u], Before(D))

CallCreateUserWithPreferences(p, D) ==
    \E u \in D.users, e \in D.emails, th \in D.newThemes :
        Begin(p, [email |-> e, first_name |-> "Ann", last_name |-> "Lee",
                  notifications |-> FALSE, op |-> "create_user_with_preferences", theme |-> th,
                  user_id |-> u], Before(D))

\* pymysql.connect(**self.connection_params)
Connect(p) ==
    /\ st[p].pc \in {"connect", "nested_connect"}
    /\ st' = [st EXCEPT ![p].conns = Append(@, NewConnection),
                        ![p].i = 1,
                        ![p].pc = IF st[p].pc = "connect" THEN "execute"
                                  ELSE "nested_execute"]
    /\ UNCHANGED <<db, nextId, strict, xl, sl, wr>>

\* The return statement of the method, evaluated inside the with block.
AtReturn(s) ==
    IF s.call.op = "update_preferences" /\ s.rowcount > 0
    THEN [s EXCEPT !.pc = "nested_connect"]
    ELSE [s EXCEPT !.pc = "close", !.out = ReturnValue(s.call, s.rowcount, s.rows)]

\* cursor.execute(...) of the next statement of the method.
Execute(p) ==
    /\ st[p].pc = "execute"
    /\ LET c == st[p].call
           prog == Statements(c)
           R == Run(View(p), nextId, prog[st[p].i], st[p].rows)
           s1 == [st[p] EXCEPT !.rowcount = R.rowcount, !.rows = R.rows, !.i = @ + 1]
       IN  /\ CanLock(p, R.x, R.s)
           /\ nextId' = R.nid
           /\ IF R.err # NoError
              THEN /\ st' = [st EXCEPT ![p].err = R.err, ![p].failedAt = st[p].i,
                                       ![p].pc = IF c.op = "create_user_with_preferences"
                                                 THEN "handler" ELSE ExceptTarget]
                   /\ UNCHANGED <<db, xl, sl, wr>>
              ELSE /\ IF Autocommit
                      THEN /\ db' = R.tabs
                           /\ UNCHANGED <<xl, sl, wr>>
                      ELSE /\ xl' = [xl EXCEPT ![p] = @ \cup R.x]
                           /\ sl' = [sl EXCEPT ![p] = @ \cup R.s]
                           /\ wr' = [wr EXCEPT ![p] = OnKeys(R.tabs, xl[p] \cup R.x)]
                           /\ UNCHANGED db
                   /\ st' = [st EXCEPT ![p] =
                                IF st[p].i < Len(prog) THEN s1
                                ELSE IF Commits(c) THEN [s1 EXCEPT !.pc = "commit"]
                                ELSE AtReturn(s1)]
    /\ UNCHANGED strict

\* conn.commit()
Commit(p) ==
    /\ st[p].pc = "commit"
    /\ EndTransaction(p, TRUE)
    /\ st' = [st EXCEPT ![p] = AtReturn([st[p] EXCEPT !.committed = TRUE])]
    /\ UNCHANGED <<nextId, strict>>

\* update_preferences: return self.get_user_with_preferences(user_id), on a
\* connection of its own while the first one is still open.
NestedExecute(p) ==
    /\ st[p].pc = "nested_execute"
    /\ LET R == SelectUserWithPreferences(View(p), nextId, st[p].call)
       IN  st' = [st EXCEPT ![p].out = FetchOne(R.rows), ![p].pc = "nested_close"]
    /\ UNCHANGED <<db, nextId, strict, xl, sl, wr>>

\* connection.rollback() on the connection of the method's own with block; it
\* has an effect on an open connection only.
MarkRolledBack(conns) ==
    IF conns[1].open THEN [conns EXCEPT ![1].rolledBack = TRUE] ELSE conns

\* The handler committing what the transaction has done so far.
HandlerCommits(p) ==
    /\ st[p].pc = "handler"
    /\ EndTransaction(p, TRUE)
    /\ st' = [st EXCEPT ![p].pc = ExceptTarget]
    /\ UNCHANGED <<nextId, strict>>

\* create_user_with_preferences: except Exception: conn.rollback(); raise
Handler(p) ==
    /\ st[p].pc = "handler"
    /\ EndTransaction(p, FALSE)
    /\ st' = [st EXCEPT ![p].conns = MarkRolledBack(@), ![p].pc = ExceptTarget]
    /\ UNCHANGED <<nextId, strict>>

\* get_connection: except Exception: connection.rollback(); raise
Rollback(p) ==
    /\ st[p].pc = "rollback"
    /\ EndTransaction(p, FALSE)
    /\ st' = [st EXCEPT ![p].conns = MarkRolledBack(@), ![p].pc = "close"]
    /\ UNCHANGED <<nextId, strict>>

Closed(conns, k) == [conns EXCEPT ![k].open = FALSE]

\* get_connection: finally: connection.close().  The server drops what the
\* connection left uncommitted.
Close(p) ==
    /\ st[p].pc \in {"close", "nested_close"}
    /\ EndTransaction(p, FALSE)
    /\ st' = [st EXCEPT ![p] =
                IF st[p].pc = "nested_close"
                THEN [@ EXCEPT !.conns = Closed(@, 2), !.pc = "close"]
                ELSE [@ EXCEPT !.conns = Closed(@, 1), !.pc = "done",
                               !.out = IF st[p].err # NoError THEN Raised(st[p].err)
                                       ELSE st[p].out]]
    /\ UNCHANGED <<nextId, strict>>

\* The caller has the result and is free to call again.
Return(p) ==
    /\ st[p].pc = "done"
    /\ st' = [st EXCEPT ![p] = Idle]
    /\ UNCHANGED <<db, nextId, strict, xl, sl, wr>>

Step(p) ==
    \/ CallLoadSeedData(p, Wide)
    \/ CallCreateUser(p, Wide)
    \/ CallGetUser(p, Wide)
    \/ CallGetUserWithPreferences(p, Wide)
    \/ CallGetUserActivity(p, Wide)
    \/ CallUpdateLoginCount(p, Wide)
    \/ CallUpdatePreferences(p, Wide)
    \/ CallDeleteUser(p, Wide)
    \/ CallCreateUserWithPreferences(p, Wide)
    \/ Connect(p)
    \/ Execute(p)
    \/ Commit(p)
    \/ NestedExecute(p)
    \/ Handler(p)
    \/ Rollback(p)
    \/ Close(p)
    \/ Return(p)

\* The state setup_tables leaves: three empty tables, AUTO_INCREMENT at 1.
Init ==
    /\ db = EmptyTables
    /\ nextId = 1
    /\ strict \in BOOLEAN
    /\ xl = NoKeys
    /\ sl = NoKeys
    /\ wr = NoTables
    /\ st = [p \in Procs |-> Idle]

\* One client, calling the methods one after another.
Next == Step(1)

Spec == Init /\ [][Next]_vars

----------------------------------------------------------------------------
(* Two clients at once, each on connections of its own, calling the methods *)
(* that write.                                                              *)

Concurrent == {1, 2}

StepConcurrent(p) ==
    \/ CallLoadSeedData(p, Narrow)
    \/ CallCreateUser(p, Narrow)
    \/ CallUpdateLoginCount(p, Narrow)
    \/ CallUpdatePreferences(p, Narrow)
    \/ CallDeleteUser(p, Narrow)
    \/ CallCreateUserWithPreferences(p, Narrow)
    \/ Connect(p)
    \/ Execute(p)
    \/ Commit(p)
    \/ NestedExecute(p)
    \/ Handler(p)
    \/ Rollback(p)
    \/ Close(p)
    \/ Return(p)

NextConcurrent == \E p \in Concurrent : StepConcurrent(p)

SpecConcurrent == Init /\ [][NextConcurrent]_vars

----------------------------------------------------------------------------
(* NumCallers clients, each calling update_login_count(user_id, activity_id, *)
(* 1) once on the activity row that seed_data.json loaded.                   *)

SeededTables ==
    [activity |-> {[activity_id |-> 1, login_count |-> 1, login_time |-> 1, user_id |-> "u1"]},
     preferences |-> {[notifications |-> 1, theme |-> "light", user_id |-> "u1"]},
     users |-> {SeedUser("u1", "a@x.com")}]

InitSeeded ==
    /\ db = SeededTables
    /\ nextId = 2
    /\ strict \in BOOLEAN
    /\ xl = NoKeys
    /\ sl = NoKeys
    /\ wr = NoTables
    /\ st = [p \in Procs |-> Idle]

CallIncrement(p) ==
    Begin(p, [activity_id |-> 1, increment |-> 1, op |-> "update_login_count",
              user_id |-> "u1"], db)

NextIncrement ==
    \E p \in Procs : CallIncrement(p) \/ Connect(p) \/ Execute(p) \/ Commit(p) \/ Close(p)

SpecIncrement == InitSeeded /\ [][NextIncrement]_vars

----------------------------------------------------------------------------
(* Properties *)

Done(p, op) == st[p].pc = "done" /\ st[p].call.op = op
ReturnedBool(p, b) == st[p].out.kind = "return" /\ st[p].out.t = "bool" /\ st[p].out.v = <<b>>
HasUser(T, u) == \E r \in T.users : r.user_id = u
HasEmail(T, e) == \E r \in T.users : r.email = e
HasPreferences(T, u) == \E r \in T.preferences : r.user_id = u
ActivityOf(T, u) == {r \in T.activity : r.user_id = u}
\* What get_user(u) and get_user_with_preferences(u) fetch from the committed rows.
GetUserRows(u) == SelectUser(db, nextId, [user_id |-> u]).rows
GetUserWithPreferencesRows(u) == SelectUserWithPreferences(db, nextId, [user_id |-> u]).rows
GetUserActivityRows(u) ==
    SelectActivity(db, nextId, [end_time |-> NoneV, start_time |-> NoneV, user_id |-> u]).rows

(* C1: create_user_with_preferences is all-or-nothing.  When the call is over,
   either it returned True and the users row and the preferences row of user_id
   are both committed, or it raised and the committed rows are those from before
   the call: in particular get_user(user_id) finds nothing if the user was not
   there before, also when the preferences insert failed after the users insert. *)
CreateUserWithPreferencesAtomic ==
    \A p \in Procs : Done(p, "create_user_with_preferences") =>
        LET c == st[p].call
        IN  \/ /\ ReturnedBool(p, TRUE)
               /\ ~HasUser(st[p].pre, c.user_id)
               /\ \E r \in db.users : r.user_id = c.user_id /\ r.email = c.email
               /\ \E r \in db.preferences :
                     /\ r.user_id = c.user_id
                     /\ r.notifications = BoolToTinyint(c.notifications)
                     /\ r.theme = Fit(c.theme, ThemeWidth)
            \/ /\ st[p].out.kind = "raise"
               /\ db = st[p].pre
               /\ (~HasUser(st[p].pre, c.user_id) => GetUserRows(c.user_id) = <<>>)

\* The preferences insert failed after the users insert had succeeded.
CreateUserWithPreferencesSecondInsertFailed ==
    \E p \in Procs :
        /\ Done(p, "create_user_with_preferences")
        /\ st[p].out.kind = "raise"
        /\ st[p].failedAt = 2
        /\ GetUserRows(st[p].call.user_id) = <<>>

(* C2: every use of get_connection closes its connection on every exit path.
   When the call is over no connection of it is open; when an error was raised
   inside the with block the connection was rolled back while still open, and
   that same error is what the caller gets. *)
ConnectionScopeReleases ==
    \A p \in Procs :
        /\ st[p].pc = "idle" => st[p].conns = <<>>
        /\ st[p].pc = "done" =>
              /\ \A k \in 1..Len(st[p].conns) : ~st[p].conns[k].open
              /\ st[p].err # NoError =>
                    /\ st[p].conns # <<>>
                    /\ st[p].conns[1].rolledBack
                    /\ st[p].out = Raised(st[p].err)
              /\ st[p].err = NoError /\ st[p].conns # <<>> => st[p].out.kind = "return"

\* A call that raised out of the with block, and one that returned through a
\* nested use of get_connection.
ConnectionScopeErrorPath ==
    \E p \in Procs :
        /\ Done(p, "create_user")
        /\ st[p].err = DuplicateEntry
        /\ st[p].conns[1].rolledBack
        /\ ~st[p].conns[1].open

(* C3: load_seed_data is all-or-nothing.  Until its one commit the committed
   rows are those from before the call; the commit runs only after every insert
   of the three collections succeeded; a call that raised leaves the committed
   rows as they were and hands the error to the caller. *)
LoadSeedDataAtomic ==
    \A p \in Procs : st[p].call.op = "load_seed_data" =>
        /\ ~st[p].committed => db = st[p].pre
        /\ st[p].committed =>
              /\ st[p].failedAt = 0
              /\ st[p].i = Len(Statements(st[p].call)) + 1
        /\ st[p].pc = "done" =>
              \/ st[p].out.kind = "raise" /\ db = st[p].pre
                    /\ (st[p].err # NoError => st[p].out = Raised(st[p].err))
              \/ st[p].out = ReturnedNone /\ st[p].committed

\* An insert failed after earlier inserts of the same call had succeeded.
LoadSeedDataFailedMidway ==
    \E p \in Procs :
        /\ Done(p, "load_seed_data")
        /\ st[p].out.kind = "raise"
        /\ st[p].failedAt > 1

(* C4: update_login_count does not lose an update.  With every caller
   incrementing the same activity row by 1 on a connection of its own, the
   committed login_count is the initial count plus the number of calls that
   have committed, and so the initial count plus NumCallers when all are over. *)
UpdateLoginCountNoLostUpdate ==
    LET committed == {p \in Procs : st[p].committed}
    IN  /\ \E r \in db.activity : r.activity_id = 1
        /\ \A r \in db.activity : r.activity_id = 1 =>
              /\ r.login_count = 1 + Cardinality(committed)
              /\ (\A p \in Procs : st[p].pc = "done") => r.login_count = 1 + NumCallers

\* All the concurrent increments are over, each having updated one row.
AllIncrementsDone ==
    /\ \A p \in Procs : Done(p, "update_login_count") /\ st[p].out = Returned("int", <<1>>)
    /\ \E r \in db.activity : r.login_count = 1 + NumCallers

(* C5: delete_user cascades.  After delete_user(U) returned True there was a
   users row of U before, get_user_activity(U) is the empty list and
   get_user_with_preferences(U) finds nothing; it returns False, with the
   committed rows as they were, when there was no users row of U; it returns
   True whenever there was one. *)
DeleteUserCascades ==
    \A p \in Procs : Done(p, "delete_user") =>
        LET u == st[p].call.user_id
        IN  /\ ReturnedBool(p, TRUE) \/ ReturnedBool(p, FALSE)
            /\ ReturnedBool(p, TRUE) <=> HasUser(st[p].pre, u)
            /\ ReturnedBool(p, TRUE) =>
                  /\ GetUserActivityRows(u) = <<>>
                  /\ GetUserWithPreferencesRows(u) = <<>>
                  /\ ActivityOf(db, u) = {}
                  /\ ~HasPreferences(db, u)
            /\ ReturnedBool(p, FALSE) => db = st[p].pre

\* A user with two activity rows and a preferences row was deleted.
DeleteUserWithChildren ==
    \E p \in Procs :
        /\ Done(p, "delete_user")
        /\ ReturnedBool(p, TRUE)
        /\ Cardinality(ActivityOf(st[p].pre, st[p].call.user_id)) = 2
        /\ HasPreferences(st[p].pre, st[p].call.user_id)
        /\ db.users # {}

(* C6: update_preferences with theme or notifications supplied, for a user
   whose preferences row exists, returns the joined users+preferences row
   carrying the supplied values; it returns None only when no preferences row
   of user_id exists, also when the supplied values are the stored ones. *)
UpdatePreferencesReturnsView ==
    \A p \in Procs :
        LET c == st[p].call
        IN  Done(p, "update_preferences") /\ ~(IsNone(c.theme) /\ IsNone(c.notifications)) =>
                /\ HasPreferences(st[p].pre, c.user_id) =>
                      /\ st[p].out.kind = "return"
                      /\ st[p].out.t = "row"
                      /\ ~IsNone(c.theme) => st[p].out.v[1].theme = c.theme
                      /\ ~IsNone(c.notifications) =>
                            st[p].out.v[1].notifications
                                = <<BoolToTinyint(c.notifications[1])>>
                /\ st[p].out = ReturnedNone => ~HasPreferences(st[p].pre, c.user_id)

(* C7: update_preferences with neither theme nor notifications opens no
   connection, leaves the committed rows as they were, and ends with an outcome
   other than the one of a call that matched no preferences row. *)
UpdatePreferencesNothingToUpdate ==
    \A p \in Procs :
        LET c == st[p].call
        IN  Done(p, "update_preferences") /\ IsNone(c.theme) /\ IsNone(c.notifications) =>
                /\ st[p].conns = <<>>
                /\ db = st[p].pre
                /\ st[p].out # ReturnValue(c, 0, <<>>)

\* The four values of a create_user call fit their columns.
FitsUsersColumns(c) ==
    /\ ~TooLong(c.user_id, UserIdWidth)
    /\ ~TooLong(c.email, EmailWidth)
    /\ ~TooLong(c.first_name, FirstNameWidth)
    /\ ~TooLong(c.last_name, LastNameWidth)

\* The users row a create_user call asks for.
UserRecord(c) ==
    [email |-> c.email, first_name |-> c.first_name, last_name |-> c.last_name,
     user_id |-> c.user_id]

(* C8 as stated: for every record whose user_id and email are unused,
   create_user returns and get_user(user_id) then fetches that record. *)
CreateUserRoundTrip ==
    \A p \in Procs :
        LET c == st[p].call
        IN  /\ Done(p, "create_user")
            /\ ~HasUser(st[p].pre, c.user_id)
            /\ ~HasEmail(st[p].pre, c.email)
            => /\ st[p].out.kind = "return"
               /\ GetUserRows(c.user_id) = <<UserRecord(c)>>

(* C8: for every record whose user_id and email are unused and whose four
   values fit the widths of their columns, create_user returns and
   get_user(user_id) then fetches a row with the same user_id, email,
   first_name and last_name. *)
CreateUserRoundTripWithinWidths ==
    \A p \in Procs :
        LET c == st[p].call
        IN  /\ Done(p, "create_user")
            /\ ~HasUser(st[p].pre, c.user_id)
            /\ ~HasEmail(st[p].pre, c.email)
            /\ FitsUsersColumns(c)
            => /\ st[p].out.kind = "return"
               /\ GetUserRows(c.user_id) = <<UserRecord(c)>>

\* A second user was created next to an existing one and reads back.
CreateUserSecondUser ==
    \E p \in Procs :
        /\ Done(p, "create_user")
        /\ st[p].out.kind = "return"
        /\ st[p].pre.users # {}
        /\ FitsUsersColumns(st[p].call)
        /\ GetUserRows(st[p].call.user_id) = <<UserRecord(st[p].call)>>

\* user_id and email are each unique across the committed users rows.
UsersUnique ==
    \A r1, r2 \in db.users : r1.user_id = r2.user_id \/ r1.email = r2.email => r1 = r2

(* C9 as stated: create_user with a user_id or an email already in use raises
   the duplicate-entry IntegrityError and leaves the users table as it was;
   user_id and email stay unique. *)
CreateUserDuplicateKey ==
    /\ UsersUnique
    /\ \A p \in Procs :
          LET c == st[p].call
          IN  /\ Done(p, "create_user")
              /\ HasUser(st[p].pre, c.user_id) \/ HasEmail(st[p].pre, c.email)
              => /\ st[p].out = Raised(DuplicateEntry)
                 /\ db.users = st[p].pre.users

(* C9: create_user with a user_id or an email already in use raises and leaves
   the users table as it was; the error is the duplicate-entry IntegrityError
   when the four values fit their columns or the server is not in strict mode
   (a strict server rejects an over-long value first, with a DataError);
   user_id and email stay unique in every reachable state. *)
CreateUserDuplicateRejected ==
    /\ UsersUnique
    /\ \A p \in Procs :
          LET c == st[p].call
          IN  /\ Done(p, "create_user")
              /\ HasUser(st[p].pre, c.user_id) \/ HasEmail(st[p].pre, c.email)
              => /\ st[p].out.kind = "raise"
                 /\ db.users = st[p].pre.users
                 /\ FitsUsersColumns(c) \/ ~strict => st[p].out = Raised(DuplicateEntry)
                 /\ ~FitsUsersColumns(c) /\ strict => st[p].out = Raised(DataTooLong)

\* A create_user with a fresh user_id and an email already in use was refused.
CreateUserDuplicateEmail ==
    \E p \in Procs :
        /\ Done(p, "create_user")
        /\ ~HasUser(st[p].pre, st[p].call.user_id)
        /\ HasEmail(st[p].pre, st[p].call.email)
        /\ st[p].out = Raised(DuplicateEntry)
        /\ db.users = st[p].pre.users

(* C10: referential integrity.  In every reachable state, under any
   interleaving of the writing methods of two clients, every committed
   activity row and every committed preferences row has the user_id of a
   committed users row. *)
ReferentialIntegrity ==
    /\ \A r \in db.activity : HasUser(db, r.user_id)
    /\ \A r \in db.preferences : HasUser(db, r.user_id)

\* One client's load was refused by the foreign key, the other deleted a user
\* that had child rows, and child rows of another user remain.
ReferentialIntegrityExercised ==
    \E p, q \in Concurrent :
        /\ Done(q, "load_seed_data")
        /\ st[q].err = ForeignKeyFails
        /\ Done(p, "delete_user")
        /\ ReturnedBool(p, TRUE)
        /\ db.preferences # {}

(* C11: get_user_activity(user_id, start_time, end_time) returns exactly the
   activity rows of user_id whose login_time is >= start_time when start_time
   is given and <= end_time when end_time is given, ascending by login_time;
   a bound is left out of the filter only when it is None, whatever the value
   of a bound that is given. *)
GetUserActivityAppliesBounds ==
    \A p \in Procs : Done(p, "get_user_activity") =>
        LET c == st[p].call
            rows == st[p].out.v
            wanted == {r \in st[p].pre.activity :
                          /\ r.user_id = c.user_id
                          /\ (~IsNone(c.start_time) => r.login_time >= c.start_time[1])
                          /\ (~IsNone(c.end_time) => r.login_time <= c.end_time[1])}
        IN  /\ st[p].out.kind = "return"
            /\ st[p].out.t = "rows"
            /\ {rows[k] : k \in 1..Len(rows)} = wanted
            /\ Len(rows) = Cardinality(wanted)
            /\ \A j, k \in 1..Len(rows) : j < k => rows[j].login_time <= rows[k].login_time

====
